---- MODULE Spec2Model ----
(***************************************************************************)
(* go-ObuDiff: the cell-diff extraction and multi-mode rendering pipeline  *)
(* of src/main.go (executeProcessing, the four process* loops, the marker  *)
(* grammar diffRegex / parseDiffCell, the two renderers and main's output  *)
(* buffering).                                                             *)
(*                                                                         *)
(* Strings are sequences of one-character strings.  The output is a        *)
(* sequence of chunks, one chunk per Write call that reaches a writer      *)
(* (one CSV record, or one io.WriteString / fmt.Fprintf of the HTML        *)
(* helpers); a bufio buffer holds at most BufSize chunks.                  *)
(***************************************************************************)
EXTENDS Integers, Sequences, FiniteSets, TLC

VARIABLES
    cfg,            \* Config: LightMode, FormatHTML, LineLimit, Headers, FontFamily
    driver,         \* "main": main() (bufio.Writer over the output file);
                    \* "direct": executeProcessing called on the sink itself (TestIOErrors)
    input,          \* what the csv.Reader will deliver: records and read errors
    pos,            \* how many items the csv.Reader has delivered
    reads,          \* how many times reader.Read() has been called
    pc,             \* position of the run
    lineCount,      \* lineCount of the running process* function
    diffFoundCount, \* diffFoundCount of processHTMLAsList
    csvw,           \* the bufio.Writer inside csv.NewWriter(writer)
    bw,             \* main's bufio.NewWriter(outFile)
    sink,           \* the output sink (outFile, or the test's writer)
    err,            \* the error executeProcessing returns
    reported,       \* what main has reported: "none", "success", "failure"
    cell,           \* cell laboratory: the cell handed to parseDiffCell
    parsed          \* cell laboratory: what parseDiffCell returned for it

vars == <<cfg, driver, input, pos, reads, pc, lineCount, diffFoundCount,
          csvw, bw, sink, err, reported, cell, parsed>>

pipeVars == <<cfg, driver, input, pos, reads, pc, lineCount, diffFoundCount,
              csvw, bw, sink, err, reported>>

cellVars == <<cell, parsed>>

----------------------------------------------------------------------------
(* Bounds *)

MaxRecs == 2      \* items (records or read errors) in the input
MaxLimit == 2     \* largest line cap -n
BufSize == 2      \* chunks a bufio buffer holds (bufio's defaultBufSize, scaled)
MaxSegs == 3      \* segments in an edit script the diff engine returns
MaxToks == 5      \* tokens in a cell of the cell laboratory

----------------------------------------------------------------------------
(* Strings *)

RECURSIVE Concat(_)
Concat(ss) == IF ss = <<>> THEN <<>> ELSE Head(ss) \o Concat(Tail(ss))

Min(S) == CHOOSE x \in S : \A y \in S : x <= y

Digit(d) == <<"0", "1", "2", "3", "4", "5", "6", "7", "8", "9">>[d + 1]

\* fmt.Sprintf("%d", n) for n >= 0
RECURSIVE Itoa(_)
Itoa(n) == IF n < 10 THEN <<Digit(n)>> ELSE Itoa(n \div 10) \o <<Digit(n % 10)>>

\* html.EscapeString on one character
EscapeChar(c) ==
    CASE c = "&" -> <<"&", "a", "m", "p", ";">>
      [] c = "<" -> <<"&", "l", "t", ";">>
      [] c = ">" -> <<"&", "g", "t", ";">>
      [] c = "\"" -> <<"&", "#", "3", "4", ";">>
      [] c = "'" -> <<"&", "#", "3", "9", ";">>
      [] OTHER -> <<c>>

\* html.EscapeString
EscapeString(s) == Concat([i \in 1..Len(s) |-> EscapeChar(s[i])])

\* strings.ReplaceAll(strings.ReplaceAll(fontFamily, "<", ""), ">", "")
safeFontFamily(f) == SelectSeq(f, LAMBDA c : c # "<" /\ c # ">")

----------------------------------------------------------------------------
(* The marker grammar: ^\s*\[\-(.*?)\-\]\{\+(.*?)\+\}\s*$ *)

\* \s of Go's regexp: [\t\n\f\r ]
IsSpace(c) == c \in {" ", "\t", "\n", "\f", "\r"}

\* . of Go's regexp without the s flag: any character but newline
IsDot(c) == c # "\n"

OpenOld == <<"[", "-">>
CloseOldOpenNew == <<"-", "]", "{", "+">>
CloseOld == <<"-", "]">>
CloseNew == <<"+", "}">>

\* the literal lit stands in s at position p
At(s, p, lit) ==
    /\ p >= 1
    /\ p + Len(lit) - 1 <= Len(s)
    /\ \A k \in 1..Len(lit) : s[p + k - 1] = lit[k]

\* lengths b of a NEW capture starting at q: NEW, then +}, then \s* to the end
NewLens(s, q) ==
    { b \in 0..Len(s) :
        /\ q + b + 1 <= Len(s)
        /\ \A k \in q..(q + b - 1) : IsDot(s[k])
        /\ At(s, q + b, CloseNew)
        /\ \A k \in (q + b + 2)..Len(s) : IsSpace(s[k]) }

\* lengths a of an OLD capture after i leading spaces and [-, with which the
\* rest of the pattern still matches
OldLens(s, i) ==
    { a \in 0..Len(s) :
        /\ i + 2 + a <= Len(s)
        /\ \A k \in (i + 3)..(i + 2 + a) : IsDot(s[k])
        /\ At(s, i + 3 + a, CloseOldOpenNew)
        /\ NewLens(s, i + 7 + a) # {} }

\* s without its leading and trailing \s characters
RECURSIVE TrimLeft(_)
TrimLeft(s) == IF s # <<>> /\ IsSpace(Head(s)) THEN TrimLeft(Tail(s)) ELSE s

RECURSIVE TrimRight(_)
TrimRight(s) ==
    IF s # <<>> /\ IsSpace(s[Len(s)]) THEN TrimRight(SubSeq(s, 1, Len(s) - 1)) ELSE s

Trim(s) == TrimRight(TrimLeft(s))

\* the pattern without its ^ anchor: the marker may start anywhere in the cell
StartsUnanchored(s) ==
    { i \in 0..Len(s) : At(s, i + 1, OpenOld) /\ OldLens(s, i) # {} }

\* numbers i of leading \s the pattern may consume before [-
Starts(s) ==
    { i \in 0..Len(s) :
        /\ \A k \in 1..i : IsSpace(s[k])
        /\ At(s, i + 1, OpenOld)
        /\ OldLens(s, i) # {} }

NoMatch == [matched |-> FALSE, old |-> <<>>, new |-> <<>>]

\* greedy captures (.*) take the longest length that lets the rest match
GreedyLen(S) == CHOOSE x \in S : \A y \in S : x >= y

\* the lazy captures (.*?) take the shortest length that lets the rest match
LazyLen(S) == Min(S)

\* diffRegex.FindStringSubmatch(cell): matches[1], matches[2]
FindStringSubmatch(s) ==
    IF Starts(s) = {} THEN NoMatch
    ELSE LET i == CHOOSE x \in Starts(s) : TRUE
             a == LazyLen(OldLens(s, i))
             q == i + 7 + a
             b == LazyLen(NewLens(s, q))
         IN [matched |-> TRUE,
             old |-> SubSeq(s, i + 3, i + 2 + a),
             new |-> SubSeq(s, q, q + b - 1)]

----------------------------------------------------------------------------
(* The diff engine and the two renderers *)

DiffEqual == "equal"
DiffDelete == "delete"
DiffInsert == "insert"

\* the non-empty prefixes of s
Prefixes(s) == { SubSeq(s, 1, n) : n \in 1..Len(s) }

\* the edit scripts of at most n non-empty segments for (old, new): the first
\* segment keeps a common prefix, deletes a prefix of old or inserts a prefix of
\* new, and the rest is a script for what remains (a last segment has to
\* account for all that remains)
RECURSIVE EditScripts(_, _, _)
EditScripts(old, new, n) ==
    IF old = <<>> /\ new = <<>> THEN { <<>> }
    ELSE IF n = 0 THEN {}
    ELSE IF n = 1
    THEN IF old = new THEN { <<[Type |-> DiffEqual, Text |-> old]>> }
         ELSE IF new = <<>> THEN { <<[Type |-> DiffDelete, Text |-> old]>> }
         ELSE IF old = <<>> THEN { <<[Type |-> DiffInsert, Text |-> new]>> }
         ELSE {}
    ELSE LET Rest(x, t) == SubSeq(x, Len(t) + 1, Len(x))
             Then(type, t, ds) == { <<[Type |-> type, Text |-> t]>> \o d : d \in ds }
         IN UNION ( { Then(DiffEqual, t, EditScripts(Rest(old, t), Rest(new, t), n - 1)) :
                        t \in Prefixes(old) \cap Prefixes(new) }
                    \cup
                    { Then(DiffDelete, t, EditScripts(Rest(old, t), new, n - 1)) :
                        t \in Prefixes(old) }
                    \cup
                    { Then(DiffInsert, t, EditScripts(old, Rest(new, t), n - 1)) :
                        t \in Prefixes(new) } )

\* dmp.DiffMain(old, new, false) followed by dmp.DiffCleanupSemantic: any edit
\* script of at most MaxSegs non-empty segments whose equal and delete texts
\* rebuild old and whose equal and insert texts rebuild new
DiffMain(old, new) == EditScripts(old, new, MaxSegs)

\* parseDiffCell with the two captures handed to the diff engine in the wrong order
parseDiffCellSwapped(c) ==
    LET matches == FindStringSubmatch(c)
    IN IF ~matches.matched
       THEN { [isDiff |-> FALSE, diffs |-> <<>>] }
       ELSE { [isDiff |-> TRUE, diffs |-> d] : d \in DiffMain(matches.new, matches.old) }

\* parseDiffCell: the set of (diffs, isDiff) it may return for a cell
parseDiffCell(c) ==
    LET matches == FindStringSubmatch(c)
    IN IF ~matches.matched
       THEN { [isDiff |-> FALSE, diffs |-> <<>>] }
       ELSE { [isDiff |-> TRUE, diffs |-> d] : d \in DiffMain(matches.old, matches.new) }

formatDiffsToText(diffs) ==
    Concat([k \in 1..Len(diffs) |->
              CASE diffs[k].Type = DiffEqual -> diffs[k].Text
                [] diffs[k].Type = DiffDelete -> OpenOld \o diffs[k].Text \o CloseOld
                [] diffs[k].Type = DiffInsert -> <<"{", "+">> \o diffs[k].Text \o CloseNew])

DelOpen == <<"<", "d", "e", "l", ">">>
DelClose == <<"<", "/", "d", "e", "l", ">">>
InsOpen == <<"<", "i", "n", "s", ">">>
InsClose == <<"<", "/", "i", "n", "s", ">">>

formatDiffsToHTML(diffs) ==
    Concat([k \in 1..Len(diffs) |->
              LET escapedText == EscapeString(diffs[k].Text)
              IN CASE diffs[k].Type = DiffEqual -> escapedText
                   [] diffs[k].Type = DiffDelete -> DelOpen \o escapedText \o DelClose
                   [] diffs[k].Type = DiffInsert -> InsOpen \o escapedText \o InsClose])

\* the results parseDiffCell may return for the cells of one record, in order
RECURSIVE ParseRecord(_)
ParseRecord(record) ==
    IF record = <<>> THEN { <<>> }
    ELSE { <<r>> \o rest : r \in parseDiffCell(Head(record)),
                           rest \in ParseRecord(Tail(record)) }

----------------------------------------------------------------------------
(* Writers: bufio.Writer (level 2: inside the csv.Writer; level 1: main's  *)
(* writer) over the sink (level 0).  st = [csvw, bw, sink].                *)

Chunk(kind, body) == [kind |-> kind, body |-> body]

bufAt(st, lvl) == IF lvl = 2 THEN st.csvw ELSE st.bw

withBuf(st, lvl, b) ==
    IF lvl = 2 THEN [st EXCEPT !.csvw = b] ELSE [st EXCEPT !.bw = b]

RECURSIVE Write(_, _, _)
RECURSIVE Flush(_, _)

\* Write(p) on the writer of level lvl: the state after it and whether it
\* returned a nil error
Write(lvl, st, p) ==
    IF lvl = 0
    THEN IF st.sink.fails
         THEN [st |-> st, ok |-> FALSE]
         ELSE [st |-> [st EXCEPT !.sink.data = @ \o p], ok |-> TRUE]
    ELSE IF lvl = 1 /\ driver = "direct"
    THEN Write(0, st, p)
    ELSE LET b == bufAt(st, lvl)
         IN IF Len(p) > BufSize - Len(b.buf) /\ ~b.err
            THEN IF Len(b.buf) = 0
                 THEN LET r == Write(lvl - 1, st, p)
                      IN IF r.ok
                         THEN Write(lvl, r.st, <<>>)
                         ELSE Write(lvl, withBuf(r.st, lvl, [b EXCEPT !.err = TRUE]), p)
                 ELSE LET n == BufSize - Len(b.buf)
                          st1 == withBuf(st, lvl, [b EXCEPT !.buf = @ \o SubSeq(p, 1, n)])
                      IN Write(lvl, Flush(lvl, st1).st, SubSeq(p, n + 1, Len(p)))
            ELSE IF b.err
                 THEN [st |-> st, ok |-> FALSE]
                 ELSE [st |-> withBuf(st, lvl, [b EXCEPT !.buf = @ \o p]), ok |-> TRUE]

\* Flush() on the writer of level lvl
Flush(lvl, st) ==
    IF lvl = 0 \/ (lvl = 1 /\ driver = "direct")
    THEN [st |-> st, ok |-> TRUE]
    ELSE LET b == bufAt(st, lvl)
         IN IF b.err THEN [st |-> st, ok |-> FALSE]
            ELSE IF Len(b.buf) = 0 THEN [st |-> st, ok |-> TRUE]
            ELSE LET r == Write(lvl - 1, st, b.buf)
                 IN IF r.ok
                    THEN [st |-> withBuf(r.st, lvl, [b EXCEPT !.buf = <<>>]), ok |-> TRUE]
                    ELSE [st |-> withBuf(r.st, lvl, [b EXCEPT !.err = TRUE]), ok |-> FALSE]

\* csv.Writer.Write(record): the record goes to the csv.Writer's buffer
csvWrite(st, record) == Write(2, st, <<Chunk("csvrow", record)>>)

\* csv.Writer.Flush(): the buffer goes to the underlying writer, the error is dropped
csvFlush(st) == Flush(2, st).st

\* io.WriteString(writer, s) / fmt.Fprintf(writer, ...) with the error dropped,
\* once for each chunk in turn
RECURSIVE WriteEach(_, _)
WriteEach(st, chunks) ==
    IF chunks = <<>> THEN st
    ELSE WriteEach(Write(1, st, <<Head(chunks)>>).st, Tail(chunks))

----------------------------------------------------------------------------
(* Inputs and configurations *)

PlainCell == <<"<">>
MarkerAB == <<"[", "-", "a", "-", "]", "{", "+", "b", "+", "}">>
MarkerIns == <<" ", "[", "-", "-", "]", "{", "+", "b", "+", "}">>
NearMarker == <<"[", "-", "a", "-", "]", "{", "+", "b">>

SampleRecords ==
    { <<PlainCell>>, <<PlainCell, MarkerAB>>,
      <<MarkerIns, MarkerAB>>, <<NearMarker, PlainCell>> }

\* what one reader.Read() delivers: a record, or an error that is not io.EOF
Items ==
    { [ok |-> TRUE, rec |-> r] : r \in SampleRecords } \cup { [ok |-> FALSE, rec |-> <<>>] }

Inputs == UNION { [1..n -> Items] : n \in 0..MaxRecs }

NilHeaders == [isNil |-> TRUE, names |-> <<>>]

HeaderChoices ==
    { NilHeaders,
      [isNil |-> FALSE, names |-> << <<"&">> >>],
      [isNil |-> FALSE, names |-> << <<"N">>, <<"&">> >>] }

FontFamilies == { <<"<", "f", ">">> }

Configs ==
    [LightMode : BOOLEAN, FormatHTML : BOOLEAN, LineLimit : 0..MaxLimit,
     Headers : HeaderChoices, FontFamily : FontFamilies]

NilErr == [kind |-> "nil", line |-> 0]
ReadErr(n) == [kind |-> "read", line |-> n]
WriteErr(n) == [kind |-> "write", line |-> n]

EmptyBuf == [buf |-> <<>>, err |-> FALSE]

NoParse == [isDiff |-> FALSE, old |-> <<>>, new |-> <<>>]

Init ==
    /\ cfg \in Configs
    /\ driver \in {"main", "direct"}
    /\ input \in Inputs
    /\ pos = 0
    /\ reads = 0
    /\ pc = "start"
    /\ lineCount = 0
    /\ diffFoundCount = 0
    /\ csvw = EmptyBuf
    /\ bw = EmptyBuf
    /\ sink \in { [data |-> <<>>, fails |-> f] : f \in BOOLEAN }
    /\ err = NilErr
    /\ reported = "none"
    /\ cell = <<>>
    /\ parsed = NoParse

----------------------------------------------------------------------------
(* The four streaming loops *)

St == [csvw |-> csvw, bw |-> bw, sink |-> sink]

SetSt(st) ==
    /\ csvw' = st.csvw
    /\ bw' = st.bw
    /\ sink' = st.sink

\* the notice decided on the records read instead of the entries produced
NoDiffFoundByLine == lineCount = 0

\* diffFoundCount == 0
NoDiffFound == diffFoundCount = 0

\* the cap tested with > instead of >=
AtCapOffByOne == cfg.LineLimit > 0 /\ lineCount > cfg.LineLimit

\* lineLimit > 0 && lineCount >= lineLimit
AtCap == cfg.LineLimit > 0 /\ lineCount >= cfg.LineLimit

\* the outcome of the next reader.Read()
ReadOutcome ==
    IF pos >= Len(input) THEN "eof"
    ELSE IF input[pos + 1].ok THEN "record" ELSE "error"

\* the loop over the cells left at the first diff
DiffColsFirst(res) ==
    LET all == SelectSeq([i \in 1..Len(res) |-> i], LAMBDA i : res[i].isDiff)
    IN IF all = <<>> THEN <<>> ELSE <<Head(all)>>

\* the 1-based columns of a record whose cell parseDiffCell reported as a diff
DiffCols(res) == SelectSeq([i \in 1..Len(res) |-> i], LAMBDA i : res[i].isDiff)

\* the header test off by one: the last mapped column stays unnamed
colStrCSVShort(colNum, headers) ==
    IF ~headers.isNil /\ colNum + 1 < Len(headers.names)
    THEN Itoa(colNum + 1) \o <<":">> \o headers.names[colNum + 1]
    ELSE Itoa(colNum + 1)

\* colStr of processCSVAsList for the 0-based column colNum
colStrCSV(colNum, headers) ==
    IF ~headers.isNil /\ colNum < Len(headers.names)
    THEN Itoa(colNum + 1) \o <<":">> \o headers.names[colNum + 1]
    ELSE Itoa(colNum + 1)

ColPrefix == <<"C", "o", "l", " ">>

\* colStr of writeHTMLDiffLine for the 1-based column col
colStrHTML(col, headers) ==
    IF ~headers.isNil /\ col - 1 < Len(headers.names)
    THEN ColPrefix \o Itoa(col) \o <<":">> \o EscapeString(headers.names[col])
    ELSE ColPrefix \o Itoa(col)

\* the rows processCSVAsList writes for one record, in column order
listRows(line, res, headers) ==
    LET cols == DiffCols(res)
    IN [k \in 1..Len(cols) |->
          << Itoa(line), colStrCSV(cols[k] - 1, headers),
             formatDiffsToText(res[cols[k]].diffs) >>]

\* writer.Write(row) for each row in turn, stopping at the first error
RECURSIVE csvWriteRows(_, _)
csvWriteRows(st, rows) ==
    IF rows = <<>> THEN [st |-> st, ok |-> TRUE]
    ELSE LET w == csvWrite(st, Head(rows))
         IN IF w.ok THEN csvWriteRows(w.st, Tail(rows)) ELSE w

\* the non-diff cells escaped as in the HTML table
outputRecordEscaped(record, res) ==
    [i \in 1..Len(record) |->
        IF res[i].isDiff THEN formatDiffsToText(res[i].diffs) ELSE EscapeString(record[i])]

\* outputRecord of processCSVAsFull
outputRecord(record, res) ==
    [i \in 1..Len(record) |->
        IF res[i].isDiff THEN formatDiffsToText(res[i].diffs) ELSE record[i]]

\* outputCells filled with append after make([]string, len(record)): the
\* rendered cells follow len(record) empty ones
outputCellsAppended(record, res) ==
    [i \in 1..Len(record) |-> <<>>] \o
    [i \in 1..Len(record) |->
        IF res[i].isDiff THEN formatDiffsToHTML(res[i].diffs) ELSE EscapeString(record[i])]

\* outputCells of processHTMLAsTable
outputCells(record, res) ==
    [i \in 1..Len(record) |->
        IF res[i].isDiff THEN formatDiffsToHTML(res[i].diffs) ELSE EscapeString(record[i])]

writeHTMLHeaderList(st, fontFamily) ==
    WriteEach(st, << Chunk("list_head", <<>>),
                     Chunk("style", <<safeFontFamily(fontFamily)>>),
                     Chunk("list_body", <<>>) >>)

writeHTMLDiffLine(st, line, col, htmlDiff, headers) ==
    WriteEach(st, << Chunk("div_open", <<>>),
                     Chunk("location", <<Itoa(line), colStrHTML(col, headers)>>),
                     Chunk("value", <<htmlDiff>>),
                     Chunk("div_close", <<>>) >>)

writeHTMLFooterList(st) == WriteEach(st, << Chunk("list_footer", <<>>) >>)

writeHTMLHeaderTable(st, fontFamily, headers) ==
    LET st1 == WriteEach(st, << Chunk("table_head", <<>>),
                                Chunk("style", <<safeFontFamily(fontFamily)>>),
                                Chunk("table_body", <<>>) >>)
    IN IF headers.isNil THEN st1
       ELSE WriteEach(st1,
                <<Chunk("thead_open", <<>>)>>
                \o [k \in 1..Len(headers.names) |->
                      Chunk("th", <<EscapeString(headers.names[k])>>)]
                \o <<Chunk("thead_close", <<>>)>>)

writeHTMLDataRowTable(st, cells) ==
    WriteEach(st, <<Chunk("tr_open", <<>>)>>
                  \o [k \in 1..Len(cells) |-> Chunk("td", <<cells[k]>>)]
                  \o <<Chunk("tr_close", <<>>)>>)

writeHTMLFooterTable(st) == WriteEach(st, << Chunk("table_footer", <<>>) >>)

\* writeHTMLDiffLine for every diff column of a record, in column order
RECURSIVE writeDiffLines(_, _, _, _, _)
writeDiffLines(st, line, cols, res, headers) ==
    IF cols = <<>> THEN st
    ELSE writeDiffLines(
             writeHTMLDiffLine(st, line, Head(cols),
                               formatDiffsToHTML(res[Head(cols)].diffs), headers),
             line, Tail(cols), res, headers)

IsCSVFull == ~cfg.LightMode /\ ~cfg.FormatHTML
IsCSVList == cfg.LightMode /\ ~cfg.FormatHTML
IsHTMLList == cfg.LightMode /\ cfg.FormatHTML
IsHTMLTable == ~cfg.LightMode /\ cfg.FormatHTML

Fixed == UNCHANGED <<cfg, driver, input, cell, parsed>>

\* processCSVAsFull up to its loop: the optional header row
processCSVAsFullHeader ==
    /\ pc = "start" /\ IsCSVFull
    /\ IF cfg.Headers.isNil
       THEN pc' = "loop" /\ UNCHANGED <<csvw, bw, sink, err>>
       ELSE LET w == csvWrite(St, cfg.Headers.names)
            IN /\ SetSt(w.st)
               /\ IF w.ok THEN pc' = "loop" /\ err' = err
                          ELSE pc' = "csvflush" /\ err' = WriteErr(0)
    /\ UNCHANGED <<pos, reads, lineCount, diffFoundCount, reported>>
    /\ Fixed

\* one iteration of the loop of processCSVAsFull
processCSVAsFullLoop ==
    /\ pc = "loop" /\ IsCSVFull
    /\ IF AtCap
       THEN pc' = "csvflush" /\ UNCHANGED <<pos, reads, lineCount, err, csvw, bw, sink>>
       ELSE /\ reads' = reads + 1
            /\ CASE ReadOutcome = "eof" ->
                      pc' = "csvflush" /\ UNCHANGED <<pos, lineCount, err, csvw, bw, sink>>
                 [] ReadOutcome = "error" ->
                      /\ pos' = pos + 1
                      /\ err' = ReadErr(lineCount + 1)
                      /\ pc' = "csvflush"
                      /\ UNCHANGED <<lineCount, csvw, bw, sink>>
                 [] ReadOutcome = "record" ->
                      /\ pos' = pos + 1
                      /\ lineCount' = lineCount + 1
                      /\ \E res \in ParseRecord(input[pos + 1].rec) :
                           LET w == csvWrite(St, outputRecord(input[pos + 1].rec, res))
                           IN /\ SetSt(w.st)
                              /\ IF w.ok THEN pc' = "loop" /\ err' = err
                                 ELSE pc' = "csvflush" /\ err' = WriteErr(lineCount + 1)
    /\ UNCHANGED <<diffFoundCount, reported>>
    /\ Fixed

\* processCSVAsList up to its loop: the fixed header row
processCSVAsListHeader ==
    /\ pc = "start" /\ IsCSVList
    /\ LET w == csvWrite(St, << <<"L", "i", "n", "e">>,
                                <<"C", "o", "l", "u", "m", "n">>,
                                <<"D", "i", "f", "f", "V", "a", "l", "u", "e">> >>)
       IN /\ SetSt(w.st)
          /\ IF w.ok THEN pc' = "loop" /\ err' = err
                     ELSE pc' = "csvflush" /\ err' = WriteErr(0)
    /\ UNCHANGED <<pos, reads, lineCount, diffFoundCount, reported>>
    /\ Fixed

\* one iteration of the loop of processCSVAsList
processCSVAsListLoop ==
    /\ pc = "loop" /\ IsCSVList
    /\ IF AtCap
       THEN pc' = "csvflush" /\ UNCHANGED <<pos, reads, lineCount, err, csvw, bw, sink>>
       ELSE /\ reads' = reads + 1
            /\ CASE ReadOutcome = "eof" ->
                      pc' = "csvflush" /\ UNCHANGED <<pos, lineCount, err, csvw, bw, sink>>
                 [] ReadOutcome = "error" ->
                      /\ pos' = pos + 1
                      /\ err' = ReadErr(lineCount + 1)
                      /\ pc' = "csvflush"
                      /\ UNCHANGED <<lineCount, csvw, bw, sink>>
                 [] ReadOutcome = "record" ->
                      /\ pos' = pos + 1
                      /\ lineCount' = lineCount + 1
                      /\ \E res \in ParseRecord(input[pos + 1].rec) :
                           LET w == csvWriteRows(St, listRows(lineCount + 1, res, cfg.Headers))
                           IN /\ SetSt(w.st)
                              /\ IF w.ok THEN pc' = "loop" /\ err' = err
                                 ELSE pc' = "csvflush" /\ err' = WriteErr(lineCount + 1)
    /\ UNCHANGED <<diffFoundCount, reported>>
    /\ Fixed

\* executeProcessing after a CSV process* function returned: csvWriter.Flush(); return err
executeProcessingFlush ==
    /\ pc = "csvflush"
    /\ SetSt(csvFlush(St))
    /\ pc' = "returned"
    /\ UNCHANGED <<pos, reads, lineCount, diffFoundCount, err, reported>>
    /\ Fixed

\* processHTMLAsList up to its loop
processHTMLAsListHeader ==
    /\ pc = "start" /\ IsHTMLList
    /\ SetSt(writeHTMLHeaderList(St, cfg.FontFamily))
    /\ pc' = "loop"
    /\ UNCHANGED <<pos, reads, lineCount, diffFoundCount, err, reported>>
    /\ Fixed

\* one iteration of the loop of processHTMLAsList
processHTMLAsListLoop ==
    /\ pc = "loop" /\ IsHTMLList
    /\ IF AtCap
       THEN pc' = "footer"
            /\ UNCHANGED <<pos, reads, lineCount, diffFoundCount, err, csvw, bw, sink>>
       ELSE /\ reads' = reads + 1
            /\ CASE ReadOutcome = "eof" ->
                      pc' = "footer"
                      /\ UNCHANGED <<pos, lineCount, diffFoundCount, err, csvw, bw, sink>>
                 [] ReadOutcome = "error" ->
                      /\ pos' = pos + 1
                      /\ err' = ReadErr(lineCount + 1)
                      /\ pc' = "returned"
                      /\ UNCHANGED <<lineCount, diffFoundCount, csvw, bw, sink>>
                 [] ReadOutcome = "record" ->
                      /\ pos' = pos + 1
                      /\ lineCount' = lineCount + 1
                      /\ \E res \in ParseRecord(input[pos + 1].rec) :
                           /\ diffFoundCount' = diffFoundCount + Len(DiffCols(res))
                           /\ SetSt(writeDiffLines(St, lineCount + 1, DiffCols(res),
                                                   res, cfg.Headers))
                      /\ pc' = "loop"
                      /\ err' = err
    /\ UNCHANGED reported
    /\ Fixed

\* processHTMLAsList after its loop: the notice, the closing tags, return err
processHTMLAsListFooter ==
    /\ pc = "footer" /\ IsHTMLList
    /\ LET w == IF NoDiffFound
                THEN Write(1, St, <<Chunk("no_diff", <<>>)>>)
                ELSE [st |-> St, ok |-> TRUE]
       IN /\ SetSt(writeHTMLFooterList(w.st))
          /\ err' = IF w.ok THEN NilErr ELSE WriteErr(lineCount)
    /\ pc' = "returned"
    /\ UNCHANGED <<pos, reads, lineCount, diffFoundCount, reported>>
    /\ Fixed

\* processHTMLAsTable up to its loop
processHTMLAsTableHeader ==
    /\ pc = "start" /\ IsHTMLTable
    /\ SetSt(WriteEach(writeHTMLHeaderTable(St, cfg.FontFamily, cfg.Headers),
                       <<Chunk("tbody_open", <<>>)>>))
    /\ pc' = "loop"
    /\ UNCHANGED <<pos, reads, lineCount, diffFoundCount, err, reported>>
    /\ Fixed

\* one iteration of the loop of processHTMLAsTable
processHTMLAsTableLoop ==
    /\ pc = "loop" /\ IsHTMLTable
    /\ IF AtCap
       THEN pc' = "footer" /\ UNCHANGED <<pos, reads, lineCount, err, csvw, bw, sink>>
       ELSE /\ reads' = reads + 1
            /\ CASE ReadOutcome = "eof" ->
                      pc' = "footer" /\ UNCHANGED <<pos, lineCount, err, csvw, bw, sink>>
                 [] ReadOutcome = "error" ->
                      /\ pos' = pos + 1
                      /\ err' = ReadErr(lineCount + 1)
                      /\ pc' = "returned"
                      /\ UNCHANGED <<lineCount, csvw, bw, sink>>
                 [] ReadOutcome = "record" ->
                      /\ pos' = pos + 1
                      /\ lineCount' = lineCount + 1
                      /\ \E res \in ParseRecord(input[pos + 1].rec) :
                           SetSt(writeHTMLDataRowTable(
                                     St, outputCells(input[pos + 1].rec, res)))
                      /\ pc' = "loop"
                      /\ err' = err
    /\ UNCHANGED <<diffFoundCount, reported>>
    /\ Fixed

\* processHTMLAsTable after its loop: </tbody>, the closing tags, return nil
processHTMLAsTableFooter ==
    /\ pc = "footer" /\ IsHTMLTable
    /\ SetSt(writeHTMLFooterTable(WriteEach(St, <<Chunk("tbody_close", <<>>)>>)))
    /\ pc' = "returned"
    /\ UNCHANGED <<pos, reads, lineCount, diffFoundCount, err, reported>>
    /\ Fixed

----------------------------------------------------------------------------
(* main around executeProcessing *)

\* executeProcessing returned an error: logger.Error, os.Exit(1); the deferred
\* writer.Flush() does not run
mainExit ==
    /\ pc = "returned" /\ driver = "main" /\ err # NilErr
    /\ reported' = "failure"
    /\ pc' = "exited"
    /\ UNCHANGED <<pos, reads, lineCount, diffFoundCount, csvw, bw, sink, err>>
    /\ Fixed

\* executeProcessing returned nil: the completion message is printed
mainSuccess ==
    /\ pc = "returned" /\ driver = "main" /\ err = NilErr
    /\ reported' = "success"
    /\ pc' = "deferred"
    /\ UNCHANGED <<pos, reads, lineCount, diffFoundCount, csvw, bw, sink, err>>
    /\ Fixed

\* main returns: the deferred writer.Flush() runs, its error is dropped
mainDeferredFlush ==
    /\ pc = "deferred"
    /\ SetSt(Flush(1, St).st)
    /\ pc' = "done"
    /\ UNCHANGED <<pos, reads, lineCount, diffFoundCount, err, reported>>
    /\ Fixed

Next ==
    \/ processCSVAsFullHeader
    \/ processCSVAsFullLoop
    \/ processCSVAsListHeader
    \/ processCSVAsListLoop
    \/ executeProcessingFlush
    \/ processHTMLAsListHeader
    \/ processHTMLAsListLoop
    \/ processHTMLAsListFooter
    \/ processHTMLAsTableHeader
    \/ processHTMLAsTableLoop
    \/ processHTMLAsTableFooter
    \/ mainExit
    \/ mainSuccess
    \/ mainDeferredFlush

Spec == Init /\ [][Next]_vars

TypeOK ==
    /\ pc \in {"start", "loop", "csvflush", "footer", "returned", "exited", "deferred", "done"}
    /\ pos \in 0..Len(input)
    /\ lineCount \in 0..Len(input)
    /\ err.kind \in {"nil", "read", "write"}

----------------------------------------------------------------------------
(* Cell laboratory: parseDiffCell's match on one cell at a time *)

Tokens == { OpenOld, CloseOld, <<"{", "+">>, CloseNew, CloseOldOpenNew, <<"a">>, <<" ">> }

ExampleCell == <<"[", "-", "a", "-", "]", "-", "]", "{", "+", "b", "+", "}">>

ExampleCells ==
    { ExampleCell,
      <<"[", "-", "a", "-", "]", "{", "+", "b", "+", "}", "+", "}">>,
      <<"[", "-", "\n", "-", "]", "{", "+", "b", "+", "}">>,
      <<"\t", "[", "-", "a", "-", "]", "{", "+", "b", "+", "}", "\n">>,
      <<"x", "[", "-", "a", "-", "]", "{", "+", "b", "+", "}">>,
      <<"[", "-", "a", "-", "]", "{", "+", "b", "+", "}", "x">>,
      <<"[", "-", "a", "-", "]", "{", "+", "}">> }

LabCells ==
    { Concat(ts) : ts \in UNION { [1..n -> Tokens] : n \in 0..MaxToks } } \cup ExampleCells

InitCell ==
    /\ cell \in LabCells
    /\ parsed = NoParse
    /\ pc = "cell"
    /\ cfg = CHOOSE c \in Configs : TRUE
    /\ driver = "direct"
    /\ input = <<>>
    /\ pos = 0
    /\ reads = 0
    /\ lineCount = 0
    /\ diffFoundCount = 0
    /\ csvw = EmptyBuf
    /\ bw = EmptyBuf
    /\ sink = [data |-> <<>>, fails |-> FALSE]
    /\ err = NilErr
    /\ reported = "none"

\* parseDiffCell up to the captures: FindStringSubmatch, the nil test, matches[1], matches[2]
matchCell ==
    /\ pc = "cell"
    /\ LET matches == FindStringSubmatch(cell)
       IN parsed' = [isDiff |-> matches.matched, old |-> matches.old, new |-> matches.new]
    /\ pc' = "matched"
    /\ UNCHANGED <<cell, cfg, driver, input, pos, reads, lineCount, diffFoundCount,
                   csvw, bw, sink, err, reported>>

NextCell == matchCell

SpecCell == InitCell /\ [][NextCell]_vars

\* the positions p >= from at which lit stands in s
Occurrences(s, from, lit) == { p \in from..Len(s) : At(s, p, lit) }

\* s up to, not including, the first lit at or after from (all of it if there is none)
UpToFirst(s, from, lit) ==
    IF Occurrences(s, from, lit) = {} THEN SubSeq(s, from, Len(s))
    ELSE SubSeq(s, from, Min(Occurrences(s, from, lit)) - 1)


----------------------------------------------------------------------------
(* Re-feeding laboratory: full-CSV processing of a one-cell record, fed its own
   output again *)

\* the OLD and NEW texts of the fed marker cells
FeedTexts ==
    { <<>>, <<" ">>, <<"a">>, <<"b">>,
      <<" ", "a">>, <<" ", "b">>, <<"a", " ">>, <<"a", "b">> }

\* the marker cell [-old-]{+new+}
MarkerCell(old, new) == OpenOld \o old \o CloseOldOpenNew \o new \o CloseNew

FeedExamples ==
    { MarkerCell(<<"[", "-", "x", "a">>, <<"[", "-", "x", "x">>),
      ExampleCell }

FeedCells == { MarkerCell(o, n) : o \in FeedTexts, n \in FeedTexts } \cup FeedExamples

\* full CSV mode: neither -light nor -html
FullCSVConfig ==
    [LightMode |-> FALSE, FormatHTML |-> FALSE, LineLimit |-> 0,
     Headers |-> NilHeaders, FontFamily |-> CHOOSE f \in FontFamilies : TRUE]

InitFeed ==
    /\ cell \in FeedCells
    /\ parsed = NoParse
    /\ pc = "feed"
    /\ cfg = FullCSVConfig
    /\ driver = "direct"
    /\ input = <<>>
    /\ pos = 0
    /\ reads = 0
    /\ lineCount = 0
    /\ diffFoundCount = 0
    /\ csvw = EmptyBuf
    /\ bw = EmptyBuf
    /\ sink = [data |-> <<>>, fails |-> FALSE]
    /\ err = NilErr
    /\ reported = "none"

\* one iteration of processCSVAsFull's loop on the record <<cell>>: parseDiffCell
\* and formatDiffsToText on the cell; the output cell is the record of the second
\* run. The diff engine is a function: for the pair it diffed last it returns the
\* same script.
feedCell ==
    /\ pc \in {"feed", "refeed"} /\ IsCSVFull
    /\ pc' = IF pc = "feed" THEN "refeed" ELSE "fed"
    /\ \E res \in ParseRecord(<<cell>>) :
          LET matches == FindStringSubmatch(cell)
              again == /\ parsed.isDiff /\ matches.matched
                       /\ matches.old = parsed.old /\ matches.new = parsed.new
          IN /\ again => res[1].diffs = parsed.diffs
             /\ cell' = outputRecord(<<cell>>, res)[1]
             /\ parsed' = [isDiff |-> res[1].isDiff, old |-> matches.old,
                           new |-> matches.new, diffs |-> res[1].diffs]
    /\ input' = Append(input, [ok |-> TRUE, rec |-> <<cell>>])
    /\ lineCount' = lineCount + 1
    /\ UNCHANGED <<cfg, driver, pos, reads, diffFoundCount, csvw, bw, sink, err, reported>>

NextFeed == feedCell

SpecFeed == InitFeed /\ [][NextFeed]_vars

----------------------------------------------------------------------------
(* Claims about the marker grammar (SpecCell) *)

\* the cell after its opening [- , leading \s dropped
AfterOpen(s) == SubSeq(TrimLeft(s), 3, Len(TrimLeft(s)))

\* C6 as stated: OLD ends at the first -] after the opening [-, NEW at the first
\* +} after the {+ that follows it; the cell [-a-]-]{+b+} is a marker cell whose
\* OLD is a.
C6_FirstCloser ==
    (pc = "matched" /\ parsed.isDiff) =>
        LET rest == AfterOpen(cell)
            old == UpToFirst(rest, 1, CloseOld)
            afterNew == SubSeq(rest, Len(old) + 5, Len(rest))
        IN /\ parsed.old = old
           /\ parsed.new = UpToFirst(afterNew, 1, CloseNew)
           /\ (cell = ExampleCell => parsed.old = <<"a">>)

\* C6 amended: for every cell that matches, OLD ends at the first -]{+ after the
\* opening [- (a -] not followed by {+ stays inside OLD), and NEW runs to the +}
\* that ends the trimmed cell (a +} before it stays inside NEW); the cell
\* [-a-]-]{+b+} is a marker cell whose OLD is a-].
C6_FirstCloserOpener ==
    /\ (pc = "matched" /\ parsed.isDiff) =>
          LET rest == AfterOpen(cell)
              old == UpToFirst(rest, 1, CloseOldOpenNew)
              afterNew == SubSeq(rest, Len(old) + 5, Len(rest))
              trimmed == TrimRight(afterNew)
          IN /\ parsed.old = old
             /\ At(trimmed, Len(trimmed) - 1, CloseNew)
             /\ parsed.new = SubSeq(trimmed, 1, Len(trimmed) - 2)
    /\ (pc = "matched" /\ cell = ExampleCell) =>
          parsed.isDiff /\ parsed.old = <<"a", "-", "]">> /\ parsed.new = <<"b">>

\* C6 witness: the example cell was matched and its OLD holds a -]
C6_Witness ==
    /\ pc = "matched"
    /\ cell = ExampleCell
    /\ parsed.isDiff
    /\ Occurrences(parsed.old, 1, CloseOld) # {}

\* C7: parseDiffCell reports a match only when the whole trimmed cell is
\* [-OLD-]{+NEW+} for the OLD and NEW it captured; so a cell with a non-space
\* character before its [- or after its final +}, or without a closing sequence,
\* is reported as not a marker.
C7_FullAnchor ==
    pc = "matched" =>
        /\ parsed.isDiff =>
              Trim(cell) = OpenOld \o parsed.old \o CloseOldOpenNew \o parsed.new \o CloseNew
        /\ ( \/ ~At(Trim(cell), 1, OpenOld)
             \/ ~At(Trim(cell), Len(Trim(cell)) - 1, CloseNew)
             \/ Occurrences(Trim(cell), 3, CloseOldOpenNew) = {} ) => ~parsed.isDiff

\* C7 witness: a cell that holds a whole marker after a non-space character was
\* matched and reported as not a marker
C7_Witness ==
    /\ pc = "matched"
    /\ ~parsed.isDiff
    /\ \E p \in 2..Len(cell) :
          /\ ~IsSpace(cell[1])
          /\ FindStringSubmatch(SubSeq(cell, p, Len(cell))).matched

----------------------------------------------------------------------------
(* Observations of a run *)

\* what the sink holds
Output == sink.data

\* every chunk a writer has accepted, in order: what reached the sink, then what
\* main's writer buffers, then what the csv.Writer buffers
Emitted == sink.data \o bw.buf \o csvw.buf

KindSeq(data, kind) == SelectSeq(data, LAMBDA ch : ch.kind = kind)

\* the readable records at the head of the input
RECURSIVE ReadablePrefix(_)
ReadablePrefix(in) ==
    IF in # <<>> /\ Head(in).ok THEN 1 + ReadablePrefix(Tail(in)) ELSE 0

Matches(c) == FindStringSubmatch(c).matched

\* the 1-based columns of a record whose cell matches the marker grammar
MarkerCols(record) == SelectSeq([i \in 1..Len(record) |-> i], LAMBDA i : Matches(record[i]))

\* the (line, column) pairs of the marker cells of records 1..n, in input order
RECURSIVE MarkerPairs(_)
MarkerPairs(n) ==
    IF n = 0 THEN <<>>
    ELSE LET cols == MarkerCols(input[n].rec)
         IN MarkerPairs(n - 1) \o [k \in 1..Len(cols) |-> <<n, cols[k]>>]

\* the records of the CSV rows among data
CsvRows(data) == [k \in 1..Len(KindSeq(data, "csvrow")) |-> KindSeq(data, "csvrow")[k].body]

\* the data rows of full-CSV output: the rows after the optional header row
FullCsvRows(data) ==
    IF cfg.Headers.isNil \/ CsvRows(data) = <<>> THEN CsvRows(data) ELSE Tail(CsvRows(data))

\* the rows of full-HTML output, each the sequence of its <td> contents
RECURSIVE TableRows(_)
TableRows(data) ==
    IF data = <<>> THEN <<>>
    ELSE LET ch == data[Len(data)]
             before == TableRows(SubSeq(data, 1, Len(data) - 1))
         IN CASE ch.kind = "tr_open" -> Append(before, <<>>)
              [] ch.kind = "td" /\ before # <<>> ->
                    [before EXCEPT ![Len(before)] = Append(@, ch.body[1])]
              [] OTHER -> before

\* the Diff Entries of list output: line, column descriptor and value as written
ListEntries(data) ==
    IF cfg.FormatHTML
    THEN LET locs == KindSeq(data, "location")
             vals == KindSeq(data, "value")
         IN [k \in 1..Len(locs) |->
               [line |-> locs[k].body[1],
                desc |-> SubSeq(locs[k].body[2], Len(ColPrefix) + 1, Len(locs[k].body[2])),
                value |-> IF k <= Len(vals) THEN vals[k].body[1] ELSE <<>>]]
    ELSE LET rows == CsvRows(data)
         IN [k \in 1..(Len(rows) - 1) |->
               [line |-> rows[k + 1][1], desc |-> rows[k + 1][2], value |-> rows[k + 1][3]]]

\* the loop of the running process* function is over
AfterLoop == pc \in {"csvflush", "footer", "returned", "exited", "deferred", "done"}

\* no read of the input fails
AllReadable == ReadablePrefix(input) = Len(input)

\* a write was handed to the writer in a CSV mode
CsvWriteTried == cfg.LightMode \/ ~cfg.Headers.isNil \/ lineCount > 0

----------------------------------------------------------------------------
(* Claims about the streaming loops (Spec) *)

\* C1: in the two CSV modes, driven through executeProcessing with a sink whose
\* every write fails, a run over readable input that handed a row to the writer
\* returns the write error, however small the input is.
C1_CsvWriteErrorReturned ==
    ( /\ pc = "returned" /\ driver = "direct" /\ sink.fails
      /\ ~cfg.FormatHTML /\ CsvWriteTried /\ AllReadable )
    => err.kind = "write"

\* C2: in the two HTML modes, with a sink whose every write fails and readable
\* input, the run stops
\* at the first failed write (the preamble's, so no record is read) and returns
\* the write error.
C2_HtmlWriteErrorAborts ==
    (pc = "returned" /\ driver = "direct" /\ sink.fails /\ cfg.FormatHTML /\ AllReadable)
    => (err.kind = "write" /\ reads = 0)

\* the run is over: nothing more is read or written
RunOver ==
    \/ pc \in {"exited", "done"}
    \/ pc = "returned" /\ driver = "direct"

\* the rows (full modes) or entries (list modes) in data
UnitsIn(data) ==
    CASE IsCSVFull -> Len(FullCsvRows(data))
      [] IsHTMLTable -> Len(TableRows(data))
      [] OTHER -> Len(ListEntries(data))

\* the rows or entries the first n records call for
UnitsFor(n) == IF cfg.LightMode THEN Len(MarkerPairs(n)) ELSE n

C4_LineCap ==
    LET N == cfg.LineLimit
        T == ReadablePrefix(input)
    IN /\ N > 0 => (reads <= N /\ lineCount <= N)
       /\ (AfterLoop /\ ~(err.kind = "write" /\ ~cfg.FormatHTML)) =>
             lineCount = IF N > 0 /\ N < T THEN N ELSE T
       /\ (AfterLoop /\ N > 0 /\ T >= N /\ ~(err.kind = "write" /\ ~cfg.FormatHTML)) =>
             (pos = N /\ err.kind # "read")

\* C4 witness: a run capped at 1 over a readable record followed by an
\* unreadable one ended with one record read and no error
C4_Witness ==
    /\ RunOver
    /\ cfg.LineLimit = 1
    /\ Len(input) = 2 /\ input[1].ok /\ ~input[2].ok
    /\ lineCount = 1
    /\ err = NilErr

NoticesIn(data) == Len(KindSeq(data, "no_diff"))

\* C5 as stated: in HTML-list mode the notice is in the output if and only if
\* zero Diff Entries were produced, for every run, runs that end on a read error
\* included.
C5_NoticeIffNoEntries ==
    (RunOver /\ IsHTMLList /\ ~sink.fails)
    => (NoticesIn(Output) > 0 <=> diffFoundCount = 0)

\* C5 amended: in HTML-list mode over a sink that accepts the writes, a run whose
\* loop ends at end of input or at the line cap has the notice in its output if
\* and only if zero Diff Entries were produced, once and immediately before the
\* closing tags; a run that ends on a read error writes neither the notice nor
\* the closing tags.
C5_NoticeIffNoEntriesUnlessReadError ==
    (RunOver /\ IsHTMLList /\ ~sink.fails)
    => IF err.kind = "read"
       THEN NoticesIn(Output) = 0 /\ KindSeq(Output, "list_footer") = <<>>
       ELSE /\ diffFoundCount = Len(ListEntries(Output))
            /\ NoticesIn(Output) = (IF Len(ListEntries(Output)) = 0 THEN 1 ELSE 0)
            /\ Len(KindSeq(Output, "list_footer")) = 1
            /\ Output[Len(Output)].kind = "list_footer"
            /\ NoticesIn(Output) = 1 => Output[Len(Output) - 1].kind = "no_diff"

\* C5 witness: an HTML-list run read a record, produced no entry and ended with
\* the notice in its output
C5_Witness ==
    /\ RunOver /\ IsHTMLList /\ ~sink.fails
    /\ lineCount > 0
    /\ diffFoundCount = 0
    /\ NoticesIn(Output) = 1


\* the index a column descriptor starts with
IndexOf(desc) == UpToFirst(desc, 1, <<":">>)

\* C8: a cell that does not match the marker grammar is written unchanged, in the
\* same row and column, by full-CSV mode, is written markup-escaped by full-HTML
\* mode, and gets no entry in the two list modes.
C8_NonMarkerCells ==
    ~sink.fails =>
        CASE IsCSVFull ->
               LET rows == FullCsvRows(Emitted)
               IN /\ Len(rows) = lineCount
                  /\ \A l \in 1..Len(rows) :
                        /\ Len(rows[l]) = Len(input[l].rec)
                        /\ \A c \in 1..Len(rows[l]) :
                              ~Matches(input[l].rec[c]) => rows[l][c] = input[l].rec[c]
          [] IsHTMLTable ->
               LET rows == TableRows(Emitted)
               IN /\ Len(rows) = lineCount
                  /\ \A l \in 1..Len(rows) :
                        /\ Len(rows[l]) = Len(input[l].rec)
                        /\ \A c \in 1..Len(rows[l]) :
                              ~Matches(input[l].rec[c])
                                  => rows[l][c] = EscapeString(input[l].rec[c])
          [] OTHER ->
               LET entries == ListEntries(Emitted)
               IN \A l \in 1..lineCount : \A c \in 1..Len(input[l].rec) :
                     ~Matches(input[l].rec[c]) =>
                         \A k \in 1..Len(entries) :
                             ~(entries[k].line = Itoa(l) /\ IndexOf(entries[k].desc) = Itoa(c))

\* C8 witness: full-CSV mode wrote the row of a record whose first cell looks
\* like a marker without its closing +} and left that cell as it was
C8_Witness ==
    /\ IsCSVFull /\ ~sink.fails
    /\ \E l \in 1..lineCount :
          /\ input[l].rec[1] = NearMarker
          /\ Len(FullCsvRows(Emitted)) >= l
          /\ FullCsvRows(Emitted)[l][1] = NearMarker

\* the descriptor the claim gives the 1-based column col
ClaimedDesc(col, headers) ==
    IF ~headers.isNil /\ col - 1 < Len(headers.names)
    THEN Itoa(col) \o <<":">> \o headers.names[col]
    ELSE Itoa(col)

\* the same with the name markup-escaped
EscapedDesc(col, headers) ==
    IF ~headers.isNil /\ col - 1 < Len(headers.names)
    THEN Itoa(col) \o <<":">> \o EscapeString(headers.names[col])
    ELSE Itoa(col)

\* C9 as stated: in both list modes the descriptor of an entry for 0-based
\* column c is c+1:headers[c] when c < k and the bare index c+1 otherwise.
C9_Descriptor ==
    (cfg.LightMode /\ ~sink.fails) =>
        LET entries == ListEntries(Emitted)
            pairs == MarkerPairs(lineCount)
        IN /\ Len(entries) = Len(pairs)
           /\ \A k \in 1..Len(entries) :
                 entries[k].desc = ClaimedDesc(pairs[k][2], cfg.Headers)

\* C9 amended: the descriptor of an entry for 0-based column c is c+1:name when
\* c < k and the bare index c+1 otherwise, whatever the record's width, where
\* name is headers[c] in CSV-list mode and the markup-escaped headers[c] in
\* HTML-list mode.
C9_DescriptorEscapedInHTML ==
    (cfg.LightMode /\ ~sink.fails) =>
        LET entries == ListEntries(Emitted)
            pairs == MarkerPairs(lineCount)
        IN /\ Len(entries) = Len(pairs)
           /\ \A k \in 1..Len(entries) :
                 entries[k].desc = IF cfg.FormatHTML
                                   THEN EscapedDesc(pairs[k][2], cfg.Headers)
                                   ELSE ClaimedDesc(pairs[k][2], cfg.Headers)

\* C9 witness: HTML-list mode with a one-name mapping wrote the entries of a
\* two-column record: the first named (escaped), the second a bare index
C9_Witness ==
    /\ IsHTMLList /\ ~sink.fails
    /\ Len(cfg.Headers.names) = 1
    /\ Len(ListEntries(Emitted)) >= 2
    /\ ListEntries(Emitted)[1].desc = <<"1", ":", "&", "a", "m", "p", ";">>
    /\ ListEntries(Emitted)[2].desc = <<"2">>

\* the values an entry for the cell c may carry
EntryValues(c) ==
    LET m == FindStringSubmatch(c)
    IN { IF cfg.FormatHTML THEN formatDiffsToHTML(d) ELSE formatDiffsToText(d) :
           d \in DiffMain(m.old, m.new) }

\* C10: in both list modes, at every point between two reads the entries written
\* are one per marker cell of the records read so far, each with the 1-based
\* count of its record as line, in increasing (line, column) order.
C10_EntriesPerMarkerCell ==
    (cfg.LightMode /\ ~sink.fails) =>
        LET entries == ListEntries(Emitted)
            pairs == MarkerPairs(lineCount)
        IN /\ Len(entries) = Len(pairs)
           /\ \A k \in 1..Len(entries) :
                 /\ entries[k].line = Itoa(pairs[k][1])
                 /\ IndexOf(entries[k].desc) = Itoa(pairs[k][2])
                 /\ entries[k].value \in EntryValues(input[pairs[k][1]].rec[pairs[k][2]])
           /\ \A j, k \in 1..Len(pairs) :
                 j < k => \/ pairs[j][1] < pairs[k][1]
                          \/ pairs[j][1] = pairs[k][1] /\ pairs[j][2] < pairs[k][2]

\* C10 witness: a list run is between its second and a third read with the three
\* entries of its first two records written
C10_Witness ==
    /\ cfg.LightMode /\ ~sink.fails
    /\ pc = "loop"
    /\ lineCount = 2
    /\ Len(ListEntries(Emitted)) = 3
    /\ ListEntries(Emitted)[3].line = <<"2">>

----------------------------------------------------------------------------
(* Claims about re-fed cells (SpecFeed) *)

Contains(s, lit) == Occurrences(s, 1, lit) # {}

\* concatenation of the texts of the segments whose type is in types
TextOf(diffs, types) ==
    Concat([k \in 1..Len(diffs) |->
              IF diffs[k].Type \in types THEN diffs[k].Text ELSE <<>>])

\* diffs is an edit script for (old, new): its equal and delete texts rebuild old,
\* its equal and insert texts rebuild new
IsScriptFor(diffs, old, new) ==
    /\ TextOf(diffs, {DiffEqual, DiffDelete}) = old
    /\ TextOf(diffs, {DiffEqual, DiffInsert}) = new

\* the cell first fed is a marker cell whose OLD and NEW hold neither -] nor +}
FedCleanMarker ==
    /\ lineCount >= 1
    /\ LET m == FindStringSubmatch(input[1].rec[1])
       IN /\ m.matched
          /\ ~Contains(m.old, CloseOld) /\ ~Contains(m.old, CloseNew)
          /\ ~Contains(m.new, CloseOld) /\ ~Contains(m.new, CloseNew)

C11_WitnessUnchanged ==
    /\ lineCount = 2 /\ FedCleanMarker
    /\ ~FindStringSubmatch(input[2].rec[1]).matched
    /\ cell = input[2].rec[1]

----------------------------------------------------------------------------
(* Claims about the final flush (Spec) *)

\* C12: whenever main has reported success, everything the run produced has
\* been flushed to the sink and no flush failed: no writer holds output still
\* and no writer has met a write error.
C12_SuccessAfterFlush ==
    reported = "success" =>
        /\ csvw.buf = <<>> /\ bw.buf = <<>>
        /\ ~csvw.err /\ ~bw.err

----------------------------------------------------------------------------
(* Claims about the rows of the full modes (Spec) *)

\* the data rows of full-mode output
FullRows(data) == IF cfg.FormatHTML THEN TableRows(data) ELSE FullCsvRows(data)

\* what a full mode may write for the cell c
CellValues(c) ==
    IF Matches(c) THEN EntryValues(c)
    ELSE { IF cfg.FormatHTML THEN EscapeString(c) ELSE c }

\* in every state of a full mode: as many data rows as records read, row i as
\* wide as record i with each cell a rendering of the same cell of record i, and
\* the reader as many items on as reads delivered one
C13_RowsMatchRecords ==
    (~cfg.LightMode /\ ~sink.fails) =>
        LET rows == FullRows(Emitted)
        IN /\ Len(rows) = lineCount
           /\ pos = lineCount + (IF err.kind = "read" THEN 1 ELSE 0)
           /\ reads \in {pos, pos + 1}
           /\ \A i \in 1..Len(rows) :
                 /\ input[i].ok
                 /\ Len(rows[i]) = Len(input[i].rec)
                 /\ \A c \in 1..Len(rows[i]) : rows[i][c] \in CellValues(input[i].rec[c])

\* in every step of a full mode: the reader moves on by at most one item and
\* never back, the rows written stay as they are, and at most one row is added,
\* the row of the record the step has read
C13_RowsStep ==
    (~cfg.LightMode /\ ~sink.fails) =>
        LET rows == FullRows(Emitted)
            rowsAfter == FullRows(Emitted')
        IN /\ pos' \in {pos, pos + 1}
           /\ Len(rowsAfter) \in {Len(rows), Len(rows) + 1}
           /\ SubSeq(rowsAfter, 1, Len(rows)) = rows
           /\ Len(rowsAfter) = Len(rows) + 1 =>
                 (pos' = pos + 1 /\ pos' = Len(rowsAfter) /\ reads' = reads + 1)

\* C13: in both full modes, after any number of loop iterations the data rows
\* written are as many as the records read, the i-th row is derived from the
\* i-th record only and is as wide as it, rows are written in input order, and no
\* record is read twice or consulted after the iteration that read it.
C13_RowPerRecord == [](C13_RowsMatchRecords) /\ [][C13_RowsStep]_vars

\* C13 witness: a full mode is between two reads with two rows written, the
\* first one cell wide and the second two cells wide, like their records
C13_Witness ==
    /\ ~cfg.LightMode /\ ~sink.fails
    /\ pc = "loop" /\ lineCount = 2
    /\ Len(FullRows(Emitted)) = 2
    /\ Len(input[1].rec) = 1 /\ Len(FullRows(Emitted)[1]) = 1
    /\ Len(input[2].rec) = 2 /\ Len(FullRows(Emitted)[2]) = 2

====
